---- MODULE Spec2Model ----
(***************************************************************************)
(* Model of face-service/server.py: the POST /verify handler verify_faces. *)
(* Each request runs the handler's steps in order; the steps of concurrent *)
(* requests interleave.  The filesystem is the only state requests share.  *)
(* Strings are sequences of one-character strings, file contents are       *)
(* sequences of bytes (0..255).                                            *)
(***************************************************************************)
EXTENDS Integers, Sequences, FiniteSets, TLC

\* ------------------------------------------------------------------ bounds

\* Number of names the temp-file name generator can produce.
NumTemp == 3

\* The worker threads serving requests concurrently.
Requests == {"r1", "r2"}

\* ----------------------------------------------------------------- strings

Range(s) == {s[i] : i \in 1..Len(s)}

StartsWith(s, p) == Len(s) >= Len(p) /\ SubSeq(s, 1, Len(p)) = p

\* Index of the first comma of s (0 when there is none).
FirstComma(s) ==
    IF "," \in Range(s)
    THEN CHOOSE i \in 1..Len(s) : s[i] = "," /\ \A j \in 1..(i - 1) : s[j] # ","
    ELSE 0

\* Python's s.split(','): the segments between the commas, in order.
RECURSIVE Split(_)
Split(s) ==
    IF FirstComma(s) = 0 THEN <<s>>
    ELSE <<SubSeq(s, 1, FirstComma(s) - 1)>>
             \o Split(SubSeq(s, FirstComma(s) + 1, Len(s)))

\* image.split(',')[1] if ',' in image else image
Payload(s) == IF "," \in Range(s) THEN Split(s)[2] ELSE s

DataPrefix == <<"d", "a", "t", "a", ":">>
JpegMagic == <<"/", "9", "j">>

\* Variant: the JPEG magic is not recognised.
IsDataUrlOnly(s) == StartsWith(s, DataPrefix)

\* image2_path.startswith('data:') or image2_path.startswith('/9j')
IsBase64Class(s) == StartsWith(s, DataPrefix) \/ StartsWith(s, JpegMagic)

\* ------------------------------------------------------------------ base64

B64Alphabet ==
    << "A", "B", "C", "D", "E", "F", "G", "H", "I", "J", "K", "L", "M",
       "N", "O", "P", "Q", "R", "S", "T", "U", "V", "W", "X", "Y", "Z",
       "a", "b", "c", "d", "e", "f", "g", "h", "i", "j", "k", "l", "m",
       "n", "o", "p", "q", "r", "s", "t", "u", "v", "w", "x", "y", "z",
       "0", "1", "2", "3", "4", "5", "6", "7", "8", "9", "+", "/" >>

B64Val(c) == (CHOOSE i \in 1..Len(B64Alphabet) : B64Alphabet[i] = c) - 1

DecodeFailure == [ok |-> FALSE, bytes |-> <<>>]

\* base64.b64decode(s) with validate=False: characters outside the alphabet
\* are skipped, a completed '=' padding ends the input, and data characters
\* left over in an unfinished quad are an error ("Incorrect padding").
\* qp: position in the quad, left: bits carried over, pads: '=' seen.
RECURSIVE A2B(_, _, _, _, _, _)
A2B(s, i, qp, left, pads, out) ==
    IF i > Len(s)
    THEN IF qp # 0 THEN DecodeFailure ELSE [ok |-> TRUE, bytes |-> out]
    ELSE IF s[i] = "="
    THEN IF qp >= 2 /\ qp + pads + 1 >= 4
         THEN [ok |-> TRUE, bytes |-> out]
         ELSE A2B(s, i + 1, qp, left, IF qp >= 2 THEN pads + 1 ELSE pads, out)
    ELSE IF s[i] \notin Range(B64Alphabet)
    THEN A2B(s, i + 1, qp, left, pads, out)
    ELSE LET v == B64Val(s[i]) IN
         CASE qp = 0 -> A2B(s, i + 1, 1, v, 0, out)
           [] qp = 1 -> A2B(s, i + 1, 2, v % 16, 0,
                            Append(out, left * 4 + (v \div 16)))
           [] qp = 2 -> A2B(s, i + 1, 3, v % 4, 0,
                            Append(out, left * 16 + (v \div 4)))
           [] qp = 3 -> A2B(s, i + 1, 0, 0, 0, Append(out, left * 64 + v))

B64Decode(s) == A2B(s, 1, 0, 0, 0, <<>>)

\* -------------------------------------------------------------- filesystem

Digits == <<"1", "2", "3", "4", "5", "6", "7", "8", "9">>

\* A name tempfile.NamedTemporaryFile(suffix='.jpg') can generate.
TempName(k) ==
    <<"/", "t", "m", "p", "/", "t", "m", "p", Digits[k], ".", "j", "p", "g">>

TempNames == {TempName(k) : k \in 1..NumTemp}

\* Files of the caller: a government photo, a path with no file behind it,
\* and a file whose path begins with the JPEG base64 magic.
PhotoPath == <<"/", "g", "o", "v", ".", "j", "p", "g">>
MissingPath == <<"/", "n", "o", "n", "e">>
MagicPath == <<"/", "9", "j", "A">>

UserPaths == {PhotoPath, MissingPath, MagicPath}

Paths == TempNames \cup UserPaths

Absent == [exists |-> FALSE, data |-> <<>>, owner |-> "none"]

UserFile == [exists |-> TRUE, data |-> <<255, 216>>, owner |-> "user"]

NoPath == <<>>

\* ------------------------------------------------------------------ inputs

DataUrlHeader ==
    << "d", "a", "t", "a", ":", "i", "m", "a", "g", "e", "/", "j", "p", "e",
       "g", ";", "b", "a", "s", "e", "6", "4" >>

PayloadA == <<"A", "A", "A", "A">>
PayloadJ == <<"/", "9", "j", "A">>

\* A field of the JSON body: absent (data.get gives None) or a string.
Missing == [present |-> FALSE, s |-> <<>>]
Str(s) == [present |-> TRUE, s |-> s]

\* image1 strings: a bare payload, a data URL, a data URL with a second
\* comma, and a payload that is not valid base64 (3 data characters).
Image1Strings ==
    { PayloadA,
      DataUrlHeader \o <<",">> \o PayloadA,
      DataUrlHeader \o <<",">> \o PayloadA \o <<",">> \o PayloadJ,
      <<"A", "A", "A">> }

\* image2 strings: base64 with the JPEG magic (also the path of a file that
\* exists), the magic alone (not valid base64), a data URL, the path of a
\* file that exists, a path with no file.
Image2Strings ==
    { PayloadJ,
      JpegMagic,
      DataUrlHeader \o <<",">> \o PayloadA,
      PhotoPath,
      MissingPath }

\* The JSON bodies requests carry: each image2 string with a valid image1,
\* each other image1 string with a path, and the bodies with a field absent
\* or empty.
Bodies ==
    { [image1 |-> Str(PayloadA), image2 |-> Str(b)] : b \in Image2Strings }
    \cup { [image1 |-> Str(a), image2 |-> Str(MissingPath)] :
              a \in Image1Strings \ {PayloadA} }
    \cup { [image1 |-> Missing, image2 |-> Str(PhotoPath)],
           [image1 |-> Str(PayloadA), image2 |-> Missing],
           [image1 |-> Str(<<>>), image2 |-> Str(PayloadJ)],
           [image1 |-> Str(PayloadA), image2 |-> Str(<<>>)],
           [image1 |-> Missing, image2 |-> Missing] }

\* What DeepFace.verify can return: the four fields the handler reads and
\* one it does not.
VerifierResults ==
    { [verified |-> TRUE, distance |-> 0, threshold |-> 1,
       model |-> "VGG-Face", time |-> 2],
      [verified |-> FALSE, distance |-> 2, threshold |-> 1,
       model |-> "VGG-Face", time |-> 3] }

\* ------------------------------------------------------------------- state

VARIABLES
    fs,        \* path -> file: exists, data, owner (the request holding it)
    pc,        \* request -> the handler step it is at
    req,       \* request -> the JSON body: image1, image2
    local,     \* request -> the handler's local variables
    response,  \* request -> the response sent
    trace      \* request -> what the request has done so far

vars == << fs, pc, req, local, response, trace >>

NoResponse == [status |-> 0, body |-> [error |-> "none"]]

\* The handler's locals before any is assigned.  pending is the outcome of
\* the inner try, held while the finally block runs.
NoLocals ==
    [img1_data |-> <<>>, f1 |-> NoPath, img1_path |-> NoPath,
     img2_data |-> <<>>, f2 |-> NoPath, img2_path |-> NoPath,
     pending |-> NoResponse]

NoResult ==
    [verified |-> FALSE, distance |-> 0, threshold |-> 0, model |-> "none",
     time |-> 0]

\* created: temp files the request created; decoded: the fields b64decode
\* was called on; invoked: DeepFace.verify was called; result: what it
\* returned; failure: the step that raised; before: the file at image2's
\* path when the request arrived.
NoTrace ==
    [created |-> {}, decoded |-> {}, invoked |-> FALSE, result |-> NoResult,
     failure |-> "none", before |-> Absent]

FileAt(p) == IF p \in DOMAIN fs THEN fs[p] ELSE Absent

Exists(p) == FileAt(p).exists

\* Variant: names are generated without regard to the files that exist.
AnyTempName == TempNames

\* Names NamedTemporaryFile may return: it opens with O_EXCL, so never the
\* name of a file that exists.
FreeNames == {n \in TempNames : ~fs[n].exists}

\* ---------------------------------------------------------------- responses

\* jsonify({'error': 'Two images are required'}), 400
RequiredResponse ==
    [status |-> 400, body |-> [error |-> "Two images are required"]]

\* Variant: the error payload without the verified field.
ErrorResponseBare(msg) == [status |-> 500, body |-> [error |-> msg]]

\* jsonify({'error': str(e), 'verified': False}), 500
ErrorResponse(msg) ==
    [status |-> 500, body |-> [error |-> msg, verified |-> FALSE]]

\* Variant: the distance is reported only as below or above the threshold.
SuccessResponseCoarse(result) ==
    [status |-> 200,
     body |-> [verified |-> result.verified,
               distance |-> IF result.distance < result.threshold
                            THEN 0 ELSE 1,
               threshold |-> result.threshold, model |-> result.model]]

\* jsonify of the four fields of the verifier's result
SuccessResponse(result) ==
    [status |-> 200,
     body |-> [verified |-> result.verified, distance |-> result.distance,
               threshold |-> result.threshold, model |-> result.model]]

\* Variant: rejected only when both fields are missing.
BothFieldsMissing(body) ==
    /\ ~body.image1.present \/ body.image1.s = <<>>
    /\ ~body.image2.present \/ body.image2.s = <<>>

\* not image1_b64 or not image2_path
FieldsMissing(body) ==
    \/ ~body.image1.present \/ body.image1.s = <<>>
    \/ ~body.image2.present \/ body.image2.s = <<>>

\* Variant: the test is inverted.
OwnsImg2Inverted(r) == local[r].img2_path = req[r].image2.s

\* Variant: the test is left out, img2_path is removed whoever owns it.
OwnsImg2Always(r) == TRUE

\* img2_path != image2_path: the handler's test that img2_path is its own
OwnsImg2(r) == local[r].img2_path # req[r].image2.s

Init ==
    /\ fs = [p \in Paths |->
                IF p \in {PhotoPath, MagicPath} THEN UserFile ELSE Absent]
    /\ pc = [r \in Requests |-> "idle"]
    /\ req = [r \in Requests |-> [image1 |-> Missing, image2 |-> Missing]]
    /\ local = [r \in Requests |-> NoLocals]
    /\ response = [r \in Requests |-> NoResponse]
    /\ trace = [r \in Requests |-> NoTrace]

\* ----------------------------------------------------------------- handler

Goto(r, step) == pc' = [pc EXCEPT ![r] = step]

\* The handler returns: its local variables go out of scope.
Return(r, resp) ==
    /\ response' = [response EXCEPT ![r] = resp]
    /\ local' = [local EXCEPT ![r] = NoLocals]
    /\ Goto(r, "done")

\* The outer "except Exception as e": the request ends with a 500.
Raise(r, step, msg) ==
    /\ Return(r, ErrorResponse(msg))
    /\ trace' = [trace EXCEPT ![r].failure = step]

\* b64decode raises binascii.Error
RaiseDecode(r, field) ==
    /\ Return(r, ErrorResponse("Incorrect padding"))
    /\ trace' = [trace EXCEPT ![r].failure = "decode",
                              ![r].decoded = @ \cup {field}]

\* A request arrives: data = request.get_json(); data.get('image1'), ...
Receive(r) ==
    /\ pc[r] = "idle"
    /\ \E body \in Bodies :
          /\ req' = [req EXCEPT ![r] = body]
          /\ trace' = [trace EXCEPT ![r].before = FileAt(body.image2.s)]
    /\ Goto(r, "validate")
    /\ UNCHANGED << fs, local, response >>

\* if not image1_b64 or not image2_path: return 400
Validate(r) ==
    /\ pc[r] = "validate"
    /\ IF FieldsMissing(req[r])
       THEN Return(r, RequiredResponse)
       ELSE Goto(r, "decode1") /\ UNCHANGED << local, response >>
    /\ UNCHANGED << fs, req, trace >>

\* img1_data = base64.b64decode(<payload of image1_b64>)
Decode1(r) ==
    /\ pc[r] = "decode1"
    /\ LET d == B64Decode(Payload(req[r].image1.s)) IN
       IF d.ok
       THEN /\ local' = [local EXCEPT ![r].img1_data = d.bytes]
            /\ trace' = [trace EXCEPT ![r].decoded = @ \cup {"image1"}]
            /\ Goto(r, "create1")
            /\ UNCHANGED response
       ELSE RaiseDecode(r, "image1")
    /\ UNCHANGED << fs, req >>

\* A new, empty file named n, created by r.
CreateFile(r, n) ==
    /\ fs' = [fs EXCEPT ![n] = [exists |-> TRUE, data |-> <<>>, owner |-> r]]
    /\ trace' = [trace EXCEPT ![r].created = @ \cup {n}]

\* with tempfile.NamedTemporaryFile(suffix='.jpg', delete=False) as f1:
\* the file is created under a fresh name, or the creation raises OSError.
Create1(r) ==
    /\ pc[r] = "create1"
    /\ \/ \E n \in FreeNames :
             /\ CreateFile(r, n)
             /\ local' = [local EXCEPT ![r].f1 = n]
             /\ Goto(r, "write1")
             /\ UNCHANGED response
       \/ /\ Raise(r, "io", "cannot create temp file")
          /\ UNCHANGED fs
    /\ UNCHANGED req

\* f1.write(img1_data); img1_path = f1.name  (the with block closes f1;
\* delete=False: a failed write leaves the file behind)
Write1(r) ==
    /\ pc[r] = "write1"
    /\ \/ /\ fs' = [fs EXCEPT ![local[r].f1].data = local[r].img1_data]
          /\ local' = [local EXCEPT ![r].img1_path = local[r].f1]
          /\ Goto(r, "image2")
          /\ UNCHANGED << response, trace >>
       \/ /\ Raise(r, "io", "No space left on device")
          /\ UNCHANGED fs
    /\ UNCHANGED req

\* if image2_path.startswith('data:') or image2_path.startswith('/9j'):
\*     img2_data = base64.b64decode(<payload of image2_path>)
\* else: img2_path = image2_path
Image2(r) ==
    /\ pc[r] = "image2"
    /\ IF IsBase64Class(req[r].image2.s)
       THEN LET d == B64Decode(Payload(req[r].image2.s)) IN
            IF d.ok
            THEN /\ local' = [local EXCEPT ![r].img2_data = d.bytes]
                 /\ trace' = [trace EXCEPT ![r].decoded = @ \cup {"image2"}]
                 /\ Goto(r, "create2")
                 /\ UNCHANGED response
            ELSE RaiseDecode(r, "image2")
       ELSE /\ local' = [local EXCEPT ![r].img2_path = req[r].image2.s]
            /\ Goto(r, "verify")
            /\ UNCHANGED << response, trace >>
    /\ UNCHANGED << fs, req >>

\* with tempfile.NamedTemporaryFile(suffix='.jpg', delete=False) as f2:
Create2(r) ==
    /\ pc[r] = "create2"
    /\ \/ \E n \in FreeNames :
             /\ CreateFile(r, n)
             /\ local' = [local EXCEPT ![r].f2 = n]
             /\ Goto(r, "write2")
             /\ UNCHANGED response
       \/ /\ Raise(r, "io", "cannot create temp file")
          /\ UNCHANGED fs
    /\ UNCHANGED req

\* f2.write(img2_data); img2_path = f2.name
Write2(r) ==
    /\ pc[r] = "write2"
    /\ \/ /\ fs' = [fs EXCEPT ![local[r].f2].data = local[r].img2_data]
          /\ local' = [local EXCEPT ![r].img2_path = local[r].f2]
          /\ Goto(r, "verify")
          /\ UNCHANGED << response, trace >>
       \/ /\ Raise(r, "io", "No space left on device")
          /\ UNCHANGED fs
    /\ UNCHANGED req

\* result = DeepFace.verify(img1_path, img2_path, ...); return jsonify(...)
\* The verifier returns a result only if it can read both files; it may
\* raise in any case.  Either way control passes to the finally block.
Verify(r) ==
    /\ pc[r] = "verify"
    /\ \/ /\ Exists(local[r].img1_path) /\ Exists(local[r].img2_path)
          /\ \E result \in VerifierResults :
                /\ local' = [local EXCEPT
                                ![r].pending = SuccessResponse(result)]
                /\ trace' = [trace EXCEPT ![r].invoked = TRUE,
                                          ![r].result = result]
       \/ /\ local' = [local EXCEPT
                          ![r].pending = ErrorResponse("verify failed")]
          /\ trace' = [trace EXCEPT ![r].invoked = TRUE,
                                    ![r].failure = "verifier"]
    /\ Goto(r, "exists1")
    /\ UNCHANGED << fs, req, response >>

\* os.unlink(p) of a file that exists
Unlink(p) == fs' = [fs EXCEPT ![p] = Absent]

\* finally: if os.path.exists(img1_path):
Exists1(r) ==
    /\ pc[r] = "exists1"
    /\ Goto(r, IF Exists(local[r].img1_path) THEN "unlink1" ELSE "exists2")
    /\ UNCHANGED << fs, req, local, response, trace >>

\* os.unlink(img1_path): FileNotFoundError if the file is gone by now; the
\* exception leaves the finally block and reaches the outer except.
Unlink1(r) ==
    /\ pc[r] = "unlink1"
    /\ IF Exists(local[r].img1_path)
       THEN /\ Unlink(local[r].img1_path)
            /\ Goto(r, "exists2")
            /\ UNCHANGED << local, response, trace >>
       ELSE /\ Raise(r, "cleanup", "No such file or directory")
            /\ UNCHANGED fs
    /\ UNCHANGED req

\* if img2_path != image2_path and os.path.exists(img2_path):
\* otherwise the finally block ends: the inner try's return value or
\* exception takes effect.
Exists2(r) ==
    /\ pc[r] = "exists2"
    /\ IF OwnsImg2(r) /\ Exists(local[r].img2_path)
       THEN Goto(r, "unlink2") /\ UNCHANGED << local, response >>
       ELSE Return(r, local[r].pending)
    /\ UNCHANGED << fs, req, trace >>

\* os.unlink(img2_path), then the end of the finally block
Unlink2(r) ==
    /\ pc[r] = "unlink2"
    /\ IF Exists(local[r].img2_path)
       THEN /\ Unlink(local[r].img2_path)
            /\ Return(r, local[r].pending)
            /\ UNCHANGED trace
       ELSE /\ Raise(r, "cleanup", "No such file or directory")
            /\ UNCHANGED fs
    /\ UNCHANGED req

\* The response has been sent and the worker takes the next request.
\* Nothing of the request is kept; a file it left behind has no holder.
Finish(r) ==
    /\ pc[r] = "done"
    /\ Goto(r, "idle")
    /\ req' = [req EXCEPT ![r] = [image1 |-> Missing, image2 |-> Missing]]
    /\ response' = [response EXCEPT ![r] = NoResponse]
    /\ trace' = [trace EXCEPT ![r] = NoTrace]
    /\ fs' = [p \in Paths |-> IF fs[p].owner = r
                              THEN [fs[p] EXCEPT !.owner = "none"]
                              ELSE fs[p]]
    /\ UNCHANGED local

Handler(r) ==
    \/ Receive(r) \/ Validate(r) \/ Decode1(r) \/ Create1(r) \/ Write1(r)
    \/ Image2(r) \/ Create2(r) \/ Write2(r) \/ Verify(r)
    \/ Exists1(r) \/ Unlink1(r) \/ Exists2(r) \/ Unlink2(r) \/ Finish(r)

Next == \E r \in Requests : Handler(r)

\* The service alone: requests are the only users of the temp directory.
Spec == Init /\ [][Next]_vars

\* Another process of the host (a temp-directory cleaner) removes a file
\* of the temp directory.
EnvRemove ==
    /\ \E n \in TempNames : fs[n].exists /\ Unlink(n)
    /\ UNCHANGED << pc, req, local, response, trace >>

\* One worker, and the other processes of the host.
NextEnv == Handler("r1") \/ EnvRemove

SpecEnv == Init /\ [][NextEnv]_vars

\* ------------------------------------------------------------------ claims

Done(r) == pc[r] = "done"

\* The temp files a request created that are still on disk.
Remaining(r) ==
    {n \in trace[r].created : fs[n].exists /\ fs[n].owner = r}

\* The classification of image2 as the claims state it.
SaidBase64(s) ==
    \/ Len(s) >= 5 /\ SubSeq(s, 1, 5) = <<"d", "a", "t", "a", ":">>
    \/ Len(s) >= 3 /\ SubSeq(s, 1, 3) = <<"/", "9", "j">>

\* A required field is missing or empty, as the claims state it.
SaidMissing(body) ==
    \/ body.image1 = Missing \/ body.image1 = Str(<<>>)
    \/ body.image2 = Missing \/ body.image2 = Str(<<>>)

InCleanup(r) == pc[r] \in {"exists1", "unlink1", "exists2", "unlink2"}

\* C1: after any request completes, whatever its outcome, no temp file the
\* request created remains on disk.
C1_NoTempFileRemains == \A r \in Requests : Done(r) => Remaining(r) = {}

\* C2: when the verifier was invoked, then after the request completes,
\* whether the verifier returned or raised, every temp file the request
\* created has been deleted.
C2_CleanupAroundVerifier ==
    \A r \in Requests : Done(r) /\ trace[r].invoked => Remaining(r) = {}

\* C2's case: the verifier raised on two temp files, and another request
\* completed with a result.
C2_Witness ==
    /\ Done("r1") /\ trace["r1"].invoked
    /\ trace["r1"].failure = "verifier"
    /\ Cardinality(trace["r1"].created) = 2
    /\ Done("r2") /\ trace["r2"].invoked
    /\ response["r2"].status = 200

\* C3: when image2 is classified as a path, the request never deletes or
\* writes that path: at every step of the request, and after it for every
\* outcome, the file at that path is the one found there when the request
\* arrived.
C3_PathUntouched ==
    \A r \in Requests :
        pc[r] # "idle" /\ ~SaidBase64(req[r].image2.s)
            => FileAt(req[r].image2.s) = trace[r].before

\* C3's case: the photo's path was given, with a 200 and with a 500.
C3_Witness ==
    /\ Done("r1") /\ req["r1"].image2.s = PhotoPath
    /\ response["r1"].status = 200 /\ trace["r1"].before.exists
    /\ Done("r2") /\ req["r2"].image2.s = PhotoPath
    /\ response["r2"].status = 500 /\ trace["r2"].invoked

\* C4: a request with image1 or image2 missing or empty gets 400 with body
\* exactly {error: "Two images are required"}; it creates no file, decodes
\* nothing and does not invoke the verifier.
C4_ValidationBeforeIO ==
    \A r \in Requests :
        pc[r] # "idle" /\ SaidMissing(req[r])
            => /\ pc[r] \in {"validate", "done"}
               /\ trace[r].created = {}
               /\ trace[r].decoded = {}
               /\ ~trace[r].invoked
               /\ Done(r) =>
                     /\ response[r].status = 400
                     /\ response[r].body = [error |-> "Two images are required"]

\* C4's case: answered 400 with only image1 missing, and with only image2
\* empty.
C4_Witness ==
    /\ Done("r1") /\ ~req["r1"].image1.present /\ req["r1"].image2.s # <<>>
    /\ response["r1"].status = 400
    /\ Done("r2") /\ req["r2"].image1.s # <<>> /\ req["r2"].image2 = Str(<<>>)
    /\ response["r2"].status = 400

\* C5: with both fields present and non-empty, the response is 200 with
\* exactly the verifier's verified, distance, threshold and model if and
\* only if no step failed; otherwise it is 500 with {error, verified: false}.
C5_AllOrNothing ==
    \A r \in Requests :
        Done(r) /\ ~SaidMissing(req[r]) =>
            IF trace[r].failure = "none"
            THEN /\ trace[r].result \in VerifierResults
                 /\ response[r].status = 200
                 /\ response[r].body =
                       [verified |-> trace[r].result.verified,
                        distance |-> trace[r].result.distance,
                        threshold |-> trace[r].result.threshold,
                        model |-> trace[r].result.model]
            ELSE /\ response[r].status = 500
                 /\ DOMAIN response[r].body = {"error", "verified"}
                 /\ response[r].body.verified = FALSE

\* C5's case: one request answered 200 with a result whose distance is
\* above the threshold, one answered 500 after a failed write.
C5_Witness ==
    /\ Done("r1") /\ response["r1"].status = 200
    /\ response["r1"].body.distance = 2
    /\ Done("r2") /\ trace["r2"].failure = "io"
    /\ trace["r2"].created # {}

\* C6 as stated: every response, whatever its status, carries a boolean
\* verified field, true only in a 200 whose verifier result was verified.
C6_EveryResponseHasVerified ==
    \A r \in Requests :
        Done(r) =>
            /\ "verified" \in DOMAIN response[r].body
            /\ response[r].body.verified \in BOOLEAN
            /\ response[r].body.verified =>
                  response[r].status = 200 /\ trace[r].result.verified

\* C6 amended: every 200 and 500 response carries a boolean verified
\* field, true only in a 200 whose verifier result was verified; the 400
\* response carries only error.
C6_VerifiedIn200And500 ==
    \A r \in Requests :
        Done(r) =>
            /\ response[r].status \in {200, 400, 500}
            /\ response[r].status = 400 => DOMAIN response[r].body = {"error"}
            /\ response[r].status # 400 =>
                  /\ "verified" \in DOMAIN response[r].body
                  /\ response[r].body.verified \in BOOLEAN
                  /\ response[r].body.verified =>
                        response[r].status = 200 /\ trace[r].result.verified

\* C6's case: a 500 and a verified 200.
C6_Witness ==
    /\ Done("r1") /\ response["r1"].status = 500
    /\ Done("r2") /\ response["r2"].status = 200
    /\ response["r2"].body.verified

\* The payload as C7 states it: everything after the first comma.
AfterFirstComma(s) ==
    IF FirstComma(s) = 0 THEN s ELSE SubSeq(s, FirstComma(s) + 1, Len(s))

\* C7: the bytes decoded for image1, and for a base64 image2, are those of
\* the entire substring after the first comma, or of the whole string when
\* it has no comma.
C7_PayloadAfterFirstComma ==
    \A r \in Requests :
        /\ pc[r] = "create1" =>
              local[r].img1_data
                  = B64Decode(AfterFirstComma(req[r].image1.s)).bytes
        /\ pc[r] = "create2" =>
              local[r].img2_data
                  = B64Decode(AfterFirstComma(req[r].image2.s)).bytes

\* C8: an image2 starting with 'data:' or '/9j' is decoded and written to
\* a fresh temp file of the request, which is what the verifier is given;
\* any other image2 is given to the verifier unchanged, with no decoding
\* and no second temp file.
C8_Image2Classification ==
    \A r \in Requests :
        /\ pc[r] = "verify" \/ InCleanup(r) =>
              IF SaidBase64(req[r].image2.s)
              THEN /\ "image2" \in trace[r].decoded
                   /\ local[r].img2_path \in trace[r].created
                   /\ local[r].img2_path # local[r].img1_path
                   /\ local[r].img2_path # req[r].image2.s
                   /\ pc[r] = "verify" =>
                         /\ fs[local[r].img2_path].owner = r
                         /\ fs[local[r].img2_path].data
                              = B64Decode(Payload(req[r].image2.s)).bytes
              ELSE /\ local[r].img2_path = req[r].image2.s
                   /\ trace[r].created = {local[r].img1_path}
        /\ pc[r] # "idle" /\ ~SaidBase64(req[r].image2.s) =>
              /\ "image2" \notin trace[r].decoded
              /\ Cardinality(trace[r].created) <= 1
        /\ pc[r] \in {"create2", "write2"} => SaidBase64(req[r].image2.s)

\* C8's case: the verifier is about to be called with a temp file for an
\* image2 that is also the path of a file that exists, and by another
\* request with a path that does not exist.
C8_Witness ==
    /\ pc["r1"] = "verify" /\ req["r1"].image2.s = MagicPath
    /\ Exists(req["r1"].image2.s)
    /\ local["r1"].img2_path \in TempNames
    /\ pc["r2"] = "verify" /\ req["r2"].image2.s = MissingPath
    /\ local["r2"].img2_path = MissingPath

\* The temp files a request has created and not yet removed.
Held(r) ==
    (IF pc[r] \in {"write1", "image2", "create2", "write2", "verify",
                   "exists1", "unlink1"}
     THEN {local[r].f1} ELSE {})
    \cup (IF pc[r] \in {"write2", "verify", "exists1", "unlink1", "exists2",
                        "unlink2"}
          THEN {local[r].f2} \ {NoPath} ELSE {})

\* Every temp file a request holds exists, is its own, carries what the
\* request wrote, and is held by no other request.
C9_HeldFilesIntact ==
    \A r \in Requests :
        /\ \A n \in Held(r) : fs[n].exists /\ fs[n].owner = r
        /\ local[r].img1_path \in Held(r) =>
              fs[local[r].img1_path].data = local[r].img1_data
        /\ local[r].img2_path \in Held(r) \ {local[r].img1_path} =>
              fs[local[r].img2_path].data = local[r].img2_data
        /\ local[r].f1 # NoPath => local[r].f1 # local[r].f2
        /\ \A q \in Requests \ {r} : Held(r) \cap Held(q) = {}

\* A temp file that exists is changed or removed only by a step of the
\* request that created it.
C9_OnlyOwnerTouches ==
    \A n \in TempNames :
        fs[n].exists /\ fs'[n] # fs[n] =>
            \E r \in Requests : fs[n].owner = r /\ pc'[r] # pc[r]

\* C9: under any interleaving of concurrent requests, live temp files have
\* distinct names, each is written and deleted only by the request that
\* created it, and no cleanup removes a file another request still needs.
C9_NoRaceOnDisk == []C9_HeldFilesIntact /\ [][C9_OnlyOwnerTouches]_vars

\* C9's case: one request is about to call the verifier on two temp files
\* of its own while the other, past its verifier call, starts its cleanup.
C9_Witness ==
    /\ pc["r1"] = "verify" /\ Cardinality(Held("r1")) = 2
    /\ pc["r2"] = "exists1" /\ Cardinality(Held("r2")) = 1

\* C10: a temp file missing when cleanup reaches it, also one removed
\* between the existence check and the delete, raises no error: the other
\* temp file is still deleted and the response is the verifier's outcome.
C10_CleanupToleratesMissing ==
    \A r \in Requests :
        Done(r) /\ trace[r].invoked =>
            /\ trace[r].failure # "cleanup"
            /\ Remaining(r) = {}
            /\ trace[r].result \in VerifierResults =>
                  response[r].status = 200
====
